---- MODULE Spec2Model ----
(***************************************************************************)
(* SD-WAN controller (src/sdwan.py): the topology store kept in a          *)
(* networkx Graph, the flow registry, path selection and scoring           *)
(* (SDWANController) and the drift monitor (DynamicPathOptimizer).         *)
(*                                                                         *)
(* Numbers.  The program computes in floats; the model computes the same   *)
(* expressions exactly.  Stored metrics are integers in fixed units:       *)
(*   latency, jitter      milliseconds                                     *)
(*   packet_loss          hundredths of a percent (0.05 % = 5)             *)
(*   bandwidth            Mbps                                             *)
(*   required_bandwidth   tenths of a Mbps (0.5 Mbps = 5)                  *)
(*   threshold, drift     hundredths (10 = 1000)                           *)
(* Derived values (edge weights, aggregated loss, scores) are exact        *)
(* rationals [n |-> numerator, d |-> denominator > 0] in lowest terms.     *)
(***************************************************************************)
EXTENDS Integers, Sequences, FiniteSets, TLC

VARIABLES
    topology,   \* SDWANController.topology: the networkx Graph
    flows,      \* SDWANController.flows: dict flow_id -> TrafficFlow, in insertion order
    history,    \* DynamicPathOptimizer.history: list of captured states
    results,    \* what the last call returned, or the exception it raised
    lastOp,     \* the last call: its name and arguments
    writer,     \* a thread inside update_link_metrics: its position and arguments
    reader,     \* a thread inside simulate_traffic or _capture_state: position and locals
    versions    \* what the store held while the reader ran, and the link records it read

vars == <<lastOp, results, topology, flows, history, writer, reader, versions>>

----------------------------------------------------------------------------
(* Exact rational arithmetic *)

Abs(x) == IF x < 0 THEN -x ELSE x

RECURSIVE Gcd(_, _)
Gcd(a, b) == IF b = 0 THEN a ELSE Gcd(b, a % b)

Rat(n, d) ==
    LET g == Gcd(Abs(n), Abs(d))
        s == IF d < 0 THEN -1 ELSE 1
    IN  [n |-> s * (n \div g), d |-> s * (d \div g)]

RInt(k) == [n |-> k, d |-> 1]
RAdd(a, b) ==
    IF a.d = 0 \/ b.d = 0 THEN [n |-> 1, d |-> 0]     \* inf + x = inf
    ELSE Rat(a.n * b.d + b.n * a.d, a.d * b.d)
RSub(a, b) == Rat(a.n * b.d - b.n * a.d, a.d * b.d)
RMul(a, b) == Rat(a.n * b.n, a.d * b.d)
RLess(a, b) == a.n * b.d < b.n * a.d
RLeq(a, b) == a.n * b.d <= b.n * a.d
RMin(a, b) == IF RLess(b, a) THEN b ELSE a
RMax(a, b) == IF RLess(a, b) THEN b ELSE a

----------------------------------------------------------------------------
(* Sequence helpers *)

Range(s) == {s[i] : i \in 1..Len(s)}
Contains(s, x) == \E i \in 1..Len(s) : s[i] = x
IndexOf(s, x) == CHOOSE i \in 1..Len(s) : s[i] = x

----------------------------------------------------------------------------
(* Input domains of the operations *)

MaxFlows == 2           \* flows registered at most
MaxLinks == 3           \* links added at most
MaxHistory == 2         \* optimize_paths calls that append to history

NodeOrder == <<"HQ", "Branch1", "Branch2">>   \* as run_simulation adds them
NodeIds == Range(NodeOrder)
NodeType(n) == IF n = "HQ" THEN "hub" ELSE IF n = "CloudGW" THEN "cloud" ELSE "cpe"
NoType == "none"        \* a node networkx created without a type attribute

Sensitivities == {"latency", "throughput", "reliability", "unspecified"}

NetworkLink(latency, jitter, packet_loss, bandwidth, cost) ==
    [latency |-> latency, jitter |-> jitter, packet_loss |-> packet_loss,
     bandwidth |-> bandwidth, cost |-> cost]

TrafficFlow(source, destination, required_bandwidth, priority, sensitivity) ==
    [source |-> source, destination |-> destination,
     required_bandwidth |-> required_bandwidth, priority |-> priority,
     sensitivity |-> sensitivity]

----------------------------------------------------------------------------
(* The networkx Graph behind SDWANController.topology.                     *)
(*   node : node ids in insertion order (the order G.nodes iterates)       *)
(*   type : the 'type' attribute of each node, NoType when never set       *)
(*   adj  : per node, its neighbours in insertion order (G[n] iterates so) *)
(*   data : per linked pair {u, v}, the one attribute dict both            *)
(*          G[u][v] and G[v][u] refer to                                   *)

EmptyGraph == [node |-> <<>>, type |-> <<>>, adj |-> <<>>, data |-> <<>>]

HasNode(G, n) == Contains(G.node, n)

has_edge(G, u, v) == HasNode(G, u) /\ Contains(G.adj[u], v)

\* dict.update: the keys of new overwrite, the other keys of old stay
DictUpdate(old, new) ==
    [k \in DOMAIN old \cup DOMAIN new |-> IF k \in DOMAIN new THEN new[k] ELSE old[k]]

\* a node add_edge meets for the first time is created with no attributes
EnsureNode(G, n) ==
    IF HasNode(G, n) THEN G
    ELSE [G EXCEPT !.node = Append(@, n),
                   !.type = (n :> NoType) @@ @,
                   !.adj = (n :> <<>>) @@ @]

G_add_node(G, n, t) ==
    [EnsureNode(G, n) EXCEPT !.type = (n :> t) @@ @]

G_add_edge(G, u, v, attr) ==
    LET G1 == EnsureNode(EnsureNode(G, u), v)
        old == IF {u, v} \in DOMAIN G1.data THEN G1.data[{u, v}] ELSE <<>>
        au == IF Contains(G1.adj[u], v) THEN G1.adj[u] ELSE Append(G1.adj[u], v)
        G2 == [G1 EXCEPT !.adj[u] = au]
        av == IF Contains(G2.adj[v], u) THEN G2.adj[v] ELSE Append(G2.adj[v], u)
    IN  [G2 EXCEPT !.adj[v] = av,
                   !.data = ({u, v} :> DictUpdate(old, attr)) @@ @]

\* G.edges(): each edge once, reported from the endpoint iterated first
RECURSIVE EdgesFrom(_, _)
EdgesFrom(G, i) ==
    IF i > Len(G.node) THEN <<>>
    ELSE LET n == G.node[i]
             earlier == {G.node[j] : j \in 1..(i - 1)}
             nbrs == SelectSeq(G.adj[n], LAMBDA w : w \notin earlier)
         IN  [k \in 1..Len(nbrs) |-> <<n, nbrs[k]>>] \o EdgesFrom(G, i + 1)

edges(G) == EdgesFrom(G, 1)

----------------------------------------------------------------------------
(* networkx.shortest_path(G, source, target, weight), as calculate_best_path *)
(* calls it.  An outcome is [kind |-> "path", path |-> <<...>>] or           *)
(* [kind |-> "raise", error |-> <exception name>].                           *)

Path(p) == [kind |-> "path", path |-> p]
Raise(e) == [kind |-> "raise", error |-> e]

Reverse(s) == [i \in 1..Len(s) |-> s[Len(s) + 1 - i]]

\* Weight with the throughput weight not inverted: d['bandwidth'] for 1/d['bandwidth']
Weight_bandwidth(sensitivity, d) ==
    CASE sensitivity = "latency" ->
            [ok |-> TRUE, w |-> RInt(d.latency)]
      [] sensitivity = "throughput" ->
            [ok |-> TRUE, w |-> RInt(d.bandwidth)]
      [] sensitivity = "reliability" ->
            [ok |-> TRUE, w |-> Rat(d.packet_loss + 10 * d.jitter, 100)]
      [] OTHER ->
            [ok |-> TRUE, w |-> RInt(1)]

\* The edge weight each branch of calculate_best_path hands to networkx.
\* 1/d['bandwidth'] divides by zero on a link of bandwidth 0.
Weight(sensitivity, d) ==
    CASE sensitivity = "latency" ->
            [ok |-> TRUE, w |-> RInt(d.latency)]
      [] sensitivity = "throughput" ->
            IF d.bandwidth = 0 THEN [ok |-> FALSE, w |-> RInt(0)]
            ELSE [ok |-> TRUE, w |-> Rat(1, d.bandwidth)]
      [] sensitivity = "reliability" ->
            [ok |-> TRUE, w |-> Rat(d.packet_loss + 10 * d.jitter, 100)]
      [] OTHER ->
            [ok |-> TRUE, w |-> RInt(1)]

\* heappop on entries (distance, counter, node): least distance, then least counter
HeapMin(fringe) ==
    CHOOSE e \in fringe : \A f \in fringe :
        RLess(e.d, f.d) \/ (e.d = f.d /\ e.c <= f.c)

\* The for loop of bidirectional_dijkstra over the neighbours of v, from the
\* i-th on.  dir 1 is the forward search, dir 2 the backward one.
RECURSIVE DijkstraRelax(_, _, _, _, _, _)
DijkstraRelax(G, sensitivity, st, dir, v, i) ==
    IF i > Len(G.adj[v]) THEN st
    ELSE
      LET w == G.adj[v][i]
          cost == Weight(sensitivity, G.data[{v, w}])
      IN
      IF ~cost.ok THEN [st EXCEPT !.error = "ZeroDivisionError"]
      ELSE
        LET vwLength == RAdd(st.dists[dir][v], cost.w) IN
        IF w \in DOMAIN st.dists[dir]
        THEN IF RLess(vwLength, st.dists[dir][w])
             THEN [st EXCEPT !.error = "ValueError"]
             ELSE DijkstraRelax(G, sensitivity, st, dir, v, i + 1)
        ELSE IF w \notin DOMAIN st.seen[dir] \/ RLess(vwLength, st.seen[dir][w])
        THEN
          LET st1 == [st EXCEPT
                        !.seen[dir] = (w :> vwLength) @@ @,
                        !.fringe[dir] = @ \cup {[d |-> vwLength, c |-> st.c, v |-> w]},
                        !.c = @ + 1,
                        !.paths[dir] = (w :> Append(st.paths[dir][v], w)) @@ @]
              both == w \in DOMAIN st1.seen[1] /\ w \in DOMAIN st1.seen[2]
              totaldist == RAdd(st1.seen[1][w], st1.seen[2][w])
              st2 == IF both /\ (st1.finalpath = <<>> \/ RLess(totaldist, st1.finaldist))
                     THEN [st1 EXCEPT
                             !.finaldist = totaldist,
                             !.finalpath = st1.paths[1][w] \o Tail(Reverse(st1.paths[2][w]))]
                     ELSE st1
          IN  DijkstraRelax(G, sensitivity, st2, dir, v, i + 1)
        ELSE DijkstraRelax(G, sensitivity, st, dir, v, i + 1)

\* The while loop of bidirectional_dijkstra.
RECURSIVE DijkstraLoop(_, _, _)
DijkstraLoop(G, sensitivity, st) ==
    IF st.fringe[1] = {} \/ st.fringe[2] = {} THEN Raise("NetworkXNoPath")
    ELSE
      LET dir == 3 - st.dir
          e == HeapMin(st.fringe[dir])
          st1 == [st EXCEPT !.dir = dir, !.fringe[dir] = @ \ {e}]
      IN
      IF e.v \in DOMAIN st1.dists[dir] THEN DijkstraLoop(G, sensitivity, st1)
      ELSE
        LET st2 == [st1 EXCEPT !.dists[dir] = (e.v :> e.d) @@ @] IN
        IF e.v \in DOMAIN st2.dists[3 - dir] THEN Path(st2.finalpath)
        ELSE
          LET st3 == DijkstraRelax(G, sensitivity, st2, dir, e.v, 1) IN
          IF st3.error # "none" THEN Raise(st3.error)
          ELSE DijkstraLoop(G, sensitivity, st3)

bidirectional_dijkstra(G, source, target, sensitivity) ==
    IF ~HasNode(G, source) \/ ~HasNode(G, target) THEN Raise("NodeNotFound")
    ELSE IF source = target THEN Path(<<source>>)
    ELSE DijkstraLoop(G, sensitivity,
            [dists |-> << <<>>, <<>> >>,
             paths |-> << (source :> <<source>>), (target :> <<target>>) >>,
             fringe |-> << {[d |-> RInt(0), c |-> 0, v |-> source]},
                           {[d |-> RInt(0), c |-> 1, v |-> target]} >>,
             seen |-> << (source :> RInt(0)), (target :> RInt(0)) >>,
             c |-> 2,
             finaldist |-> RInt(0),
             finalpath |-> <<>>,
             dir |-> 2,
             error |-> "none"])

\* bidirectional_shortest_path, which networkx runs when no weight is given:
\* breadth-first levels grown in turn from source and from target.
None == "None"

\* One level: nodes level[vi..] are expanded, the neighbours of level[vi] from
\* the wi-th on.  fwd grows pred from the source, otherwise succ from the target.
RECURSIVE BfsLevel(_, _, _, _, _, _)
BfsLevel(G, st, fwd, level, vi, wi) ==
    IF vi > Len(level) THEN st
    ELSE IF wi > Len(G.adj[level[vi]]) THEN BfsLevel(G, st, fwd, level, vi + 1, 1)
    ELSE
      LET v == level[vi]
          w == G.adj[v][wi]
          mine == IF fwd THEN st.pred ELSE st.succ
          st1 == IF w \in DOMAIN mine THEN st
                 ELSE IF fwd
                 THEN [st EXCEPT !.pred = (w :> v) @@ @, !.fringe = Append(@, w)]
                 ELSE [st EXCEPT !.succ = (w :> v) @@ @, !.fringe = Append(@, w)]
          other == IF fwd THEN st1.succ ELSE st1.pred
      IN  IF w \in DOMAIN other THEN [st1 EXCEPT !.found = w]
          ELSE BfsLevel(G, st1, fwd, level, vi, wi + 1)

RECURSIVE BfsLoop(_, _, _, _)
BfsLoop(G, st, forward_fringe, reverse_fringe) ==
    IF forward_fringe = <<>> \/ reverse_fringe = <<>> THEN [st EXCEPT !.found = None]
    ELSE IF Len(forward_fringe) <= Len(reverse_fringe)
    THEN LET st1 == BfsLevel(G, [st EXCEPT !.fringe = <<>>], TRUE, forward_fringe, 1, 1)
         IN  IF st1.found # None THEN st1
             ELSE BfsLoop(G, st1, st1.fringe, reverse_fringe)
    ELSE LET st1 == BfsLevel(G, [st EXCEPT !.fringe = <<>>], FALSE, reverse_fringe, 1, 1)
         IN  IF st1.found # None THEN st1
             ELSE BfsLoop(G, st1, forward_fringe, st1.fringe)

\* follow the links of m from w until None: w, m[w], m[m[w]], ...
RECURSIVE Chain(_, _)
Chain(m, w) == IF w = None THEN <<>> ELSE <<w>> \o Chain(m, m[w])

bidirectional_shortest_path(G, source, target) ==
    IF ~HasNode(G, source) \/ ~HasNode(G, target) THEN Raise("NodeNotFound")
    ELSE IF source = target THEN Path(<<source>>)
    ELSE
      LET st == BfsLoop(G, [pred |-> (source :> None), succ |-> (target :> None),
                            fringe |-> <<>>, found |-> None],
                        <<source>>, <<target>>)
      IN  IF st.found = None THEN Raise("NetworkXNoPath")
          ELSE LET head == Reverse(Chain(st.pred, st.found))
               IN  Path(head \o Chain(st.succ, st.succ[st.found]))

shortest_path(G, source, target, sensitivity) ==
    IF sensitivity \in {"latency", "throughput", "reliability"}
    THEN bidirectional_dijkstra(G, source, target, sensitivity)
    ELSE bidirectional_shortest_path(G, source, target)

----------------------------------------------------------------------------
(* SDWANController: the pure parts *)

FlowIdsOf(F) == {F[i].id : i \in 1..Len(F)}
FlowOf(F, flow_id) == F[CHOOSE i \in 1..Len(F) : F[i].id = flow_id].flow

\* calculate_best_path with source and destination handed over in the wrong order
calculate_best_path_swapped(G, F, flow_id) ==
    LET flow == FlowOf(F, flow_id)
    IN  shortest_path(G, flow.destination, flow.source, flow.sensitivity)

\* calculate_best_path: the path, or the exception shortest_path raises
calculate_best_path(G, F, flow_id) ==
    LET flow == FlowOf(F, flow_id)
    IN  shortest_path(G, flow.source, flow.destination, flow.sensitivity)

\* float('inf'): a rational with denominator 0 compares above every number
Infinity == [n |-> 1, d |-> 0]

\* _get_path_metrics: the loop over the edges of the path from the i-th on;
\* loss is the running product of (1 - packet_loss/100)
RECURSIVE PathMetricsFrom(_, _, _, _)
PathMetricsFrom(G, path, i, acc) ==
    IF i > Len(path) - 1 THEN acc
    ELSE LET edge == G.data[{path[i], path[i + 1]}]
         IN  PathMetricsFrom(G, path, i + 1,
                [latency |-> acc.latency + edge.latency,
                 jitter |-> acc.jitter + edge.jitter,
                 packet_loss |-> RMul(acc.packet_loss,
                                      RSub(RInt(1), Rat(edge.packet_loss, 10000))),
                 bandwidth |-> RMin(acc.bandwidth, RInt(edge.bandwidth))])

\* packet_loss is returned in percent
_get_path_metrics(G, path) ==
    LET acc == PathMetricsFrom(G, path, 1,
                  [latency |-> 0, jitter |-> 0, packet_loss |-> RInt(1),
                   bandwidth |-> Infinity])
    IN  [acc EXCEPT !.packet_loss = RMul(RSub(RInt(1), acc.packet_loss), RInt(100))]

\* max(0, min(100, score))
Clamp(score) == RMax(RInt(0), RMin(RInt(100), score))

\* _calculate_path_score with the coefficients of latency and jitter
\* exchanged in the latency branch
_calculate_path_score_swapped(metrics, flow) ==
    CASE flow.sensitivity = "latency" ->
            [kind |-> "value",
             score |-> Clamp(RSub(RSub(RInt(100), Rat(3 * metrics.latency, 10)),
                                  Rat(metrics.jitter, 2)))]
      [] flow.sensitivity = "throughput" ->
            IF flow.required_bandwidth = 0 THEN Raise("ZeroDivisionError")
            ELSE [kind |-> "value",
                  score |-> Clamp(RMul(metrics.bandwidth,
                                       Rat(1000, flow.required_bandwidth)))]
      [] flow.sensitivity = "reliability" ->
            [kind |-> "value",
             score |-> Clamp(RSub(RSub(RInt(100), RMul(RInt(2), metrics.packet_loss)),
                                  Rat(metrics.jitter, 2)))]
      [] OTHER -> Raise("UnboundLocalError")

\* _calculate_path_score.  For a sensitivity other than the three named ones
\* no branch assigns score and the return statement raises UnboundLocalError;
\* required_bandwidth 0 divides by zero.
_calculate_path_score(metrics, flow) ==
    CASE flow.sensitivity = "latency" ->
            [kind |-> "value",
             score |-> Clamp(RSub(RSub(RInt(100), Rat(metrics.latency, 2)),
                                  Rat(3 * metrics.jitter, 10)))]
      [] flow.sensitivity = "throughput" ->
            IF flow.required_bandwidth = 0 THEN Raise("ZeroDivisionError")
            ELSE [kind |-> "value",
                  score |-> Clamp(RMul(metrics.bandwidth,
                                       Rat(1000, flow.required_bandwidth)))]
      [] flow.sensitivity = "reliability" ->
            [kind |-> "value",
             score |-> Clamp(RSub(RSub(RInt(100), RMul(RInt(2), metrics.packet_loss)),
                                  Rat(metrics.jitter, 2)))]
      [] OTHER -> Raise("UnboundLocalError")

\* results[flow_id] = {'path': ..., 'metrics': ..., 'score': ...}, or the
\* exception _calculate_path_score raised
ScoredEntry(path, path_metrics, score) ==
    IF score.kind = "raise" THEN score
    ELSE [kind |-> "entry", path |-> path, metrics |-> path_metrics,
          score |-> score.score]

MeasuredEntry(path, path_metrics, flow) ==
    ScoredEntry(path, path_metrics, _calculate_path_score(path_metrics, flow))

PathEntry(G, best, flow) ==
    IF best.kind = "raise" THEN best
    ELSE MeasuredEntry(best.path, _get_path_metrics(G, best.path), flow)

\* The body of the for loop of simulate_traffic for one flow.
EvaluateFlow(G, F, flow_id) ==
    PathEntry(G, calculate_best_path(G, F, flow_id), FlowOf(F, flow_id))

\* simulate_traffic from the i-th flow on: an exception in one flow leaves the
\* loop and the call, and the entries gathered so far are lost with it.
RECURSIVE SimulateFrom(_, _, _, _)
SimulateNext(G, F, i, acc, r) ==
    IF r.kind = "raise" THEN r
    ELSE SimulateFrom(G, F, i + 1,
            (F[i].id :> [path |-> r.path, metrics |-> r.metrics, score |-> r.score]) @@ acc)

SimulateFrom(G, F, i, acc) ==
    IF i > Len(F) THEN [kind |-> "return", value |-> acc]
    ELSE SimulateNext(G, F, i, acc, EvaluateFlow(G, F, F[i].id))

simulate_traffic(G, F) == SimulateFrom(G, F, 1, <<>>)

----------------------------------------------------------------------------
(* DynamicPathOptimizer: the pure parts *)

\* _capture_state: per edge of G.edges(), a fresh dict of the three tracked metrics
_capture_state(G) ==
    LET es == edges(G)
    IN  [key \in Range(es) |->
            [latency |-> G.data[{key[1], key[2]}].latency,
             jitter |-> G.data[{key[1], key[2]}].jitter,
             packet_loss |-> G.data[{key[1], key[2]}].packet_loss]]

\* _state_diff without abs(): the differences are summed with their sign
RECURSIVE StateDiffOver_signed(_, _, _)
StateDiffOver_signed(keys, state1, state2) ==
    IF keys = {} THEN 0
    ELSE LET key == CHOOSE k \in keys : TRUE
         IN  100 * (state1[key].latency - state2[key].latency)
             + 100 * (state1[key].jitter - state2[key].jitter)
             + (state1[key].packet_loss - state2[key].packet_loss)
             + StateDiffOver_signed(keys \ {key}, state1, state2)

\* _state_diff, in hundredths: the keys of state1 are looked up in state2
RECURSIVE StateDiffOver(_, _, _)
StateDiffOver(keys, state1, state2) ==
    IF keys = {} THEN 0
    ELSE LET key == CHOOSE k \in keys : TRUE
         IN  100 * Abs(state1[key].latency - state2[key].latency)
             + 100 * Abs(state1[key].jitter - state2[key].jitter)
             + Abs(state1[key].packet_loss - state2[key].packet_loss)
             + StateDiffOver(keys \ {key}, state1, state2)

_state_diff(state1, state2) == StateDiffOver(DOMAIN state1, state1, state2)

\* optimize_paths comparing with >= where the program compares with >
optimize_paths_geq(G, hist, threshold) ==
    LET current_state == _capture_state(G)
    IN  IF hist # <<>> /\ _state_diff(hist[Len(hist)], current_state) >= threshold
        THEN [ret |-> TRUE, history |-> hist]
        ELSE [ret |-> FALSE, history |-> Append(hist, current_state)]

\* optimize_paths that takes a missing baseline for a change: "if not
\* self.history: return True" ahead of the comparison
optimize_paths_coldtrigger(G, hist, threshold) ==
    LET current_state == _capture_state(G)
    IN  IF hist = <<>>
        THEN [ret |-> TRUE, history |-> <<current_state>>]
        ELSE IF _state_diff(hist[Len(hist)], current_state) > threshold
        THEN [ret |-> TRUE, history |-> hist]
        ELSE [ret |-> FALSE, history |-> Append(hist, current_state)]

\* optimize_paths: [ret |-> returned value, history |-> the history it leaves]
optimize_paths(G, hist, threshold) ==
    LET current_state == _capture_state(G)
    IN  IF hist # <<>> /\ _state_diff(hist[Len(hist)], current_state) > threshold
        THEN [ret |-> TRUE, history |-> hist]
        ELSE [ret |-> FALSE, history |-> Append(hist, current_state)]

----------------------------------------------------------------------------
(* The operations, one action each.  An action records the call in lastOp   *)
(* and what the call returned or raised in results.                         *)

Idle == [pc |-> "idle"]
Returned(v) == [kind |-> "return", value |-> v]
NoValue == "None"

\* no reader has run: nothing recorded
NoVersions == [whole |-> {}, any |-> {}, read |-> {}]

Init ==
    /\ topology = EmptyGraph
    /\ flows = <<>>
    /\ history = <<>>
    /\ results = Returned(NoValue)
    /\ lastOp = [op |-> "init"]
    /\ writer = Idle
    /\ reader = Idle
    /\ versions = NoVersions

NoThreads == writer = Idle /\ reader = Idle
Sequential == NoThreads /\ UNCHANGED <<writer, reader, versions>>

Links(G) == DOMAIN G.data

\* add_node
AddNode(node_id, node_type) ==
    /\ Sequential
    /\ topology' = G_add_node(topology, node_id, node_type)
    /\ lastOp' = [op |-> "add_node"]
    /\ results' = Returned(NoValue)
    /\ UNCHANGED <<flows, history>>

\* add_link: add_edge(node1, node2, **link.__dict__)
AddLink(node1, node2, link) ==
    /\ Sequential
    /\ topology' = G_add_edge(topology, node1, node2, link)
    /\ lastOp' = [op |-> "add_link"]
    /\ results' = Returned(NoValue)
    /\ UNCHANGED <<flows, history>>

\* self.flows[flow_id] = flow: a new key goes last, a known key keeps its place
add_traffic_flow(F, flow_id, flow) ==
    IF flow_id \in FlowIdsOf(F)
    THEN [i \in 1..Len(F) |-> IF F[i].id = flow_id THEN [id |-> flow_id, flow |-> flow] ELSE F[i]]
    ELSE Append(F, [id |-> flow_id, flow |-> flow])

AddTrafficFlow(flow_id, flow) ==
    /\ Sequential
    /\ flows' = add_traffic_flow(flows, flow_id, flow)
    /\ lastOp' = [op |-> "add_traffic_flow"]
    /\ results' = Returned(NoValue)
    /\ UNCHANGED <<topology, history>>

\* update_link_metrics that rebuilds the record from the given metrics alone:
\* the fields not given fall back to 0
update_link_metrics_rebuild(G, node1, node2, metrics) ==
    IF has_edge(G, node1, node2)
    THEN [G EXCEPT !.data[{node1, node2}] =
            [f \in DOMAIN @ \cup DOMAIN metrics |->
                IF f \in DOMAIN metrics THEN metrics[f] ELSE 0]]
    ELSE G

\* update_link_metrics run to its end: every given metric written, or
\* nothing at all when has_edge is false
update_link_metrics(G, node1, node2, metrics) ==
    IF has_edge(G, node1, node2)
    THEN [G EXCEPT !.data[{node1, node2}] = DictUpdate(@, metrics)]
    ELSE G

\* update_link_metrics on a history whose snapshots are views of the live
\* link records: the update shows in every snapshot that holds the link
UpdateLinkMetrics_view(node1, node2, metrics) ==
    /\ Sequential
    /\ topology' = update_link_metrics(topology, node1, node2, metrics)
    /\ history' = [i \in 1..Len(history) |->
                      [key \in DOMAIN history[i] |->
                          IF {key[1], key[2]} = {node1, node2}
                          THEN [f \in DOMAIN history[i][key] |->
                                   topology'.data[{node1, node2}][f]]
                          ELSE history[i][key]]]
    /\ lastOp' = [op |-> "update_link_metrics"]
    /\ results' = Returned(NoValue)
    /\ UNCHANGED flows

UpdateLinkMetrics(node1, node2, metrics) ==
    /\ Sequential
    /\ topology' = update_link_metrics(topology, node1, node2, metrics)
    /\ lastOp' = [op |-> "update_link_metrics"]
    /\ results' = Returned(NoValue)
    /\ UNCHANGED <<flows, history>>

CalculateBestPath(flow_id) ==
    /\ Sequential
    /\ flow_id \in FlowIdsOf(flows)
    /\ LET best == calculate_best_path(topology, flows, flow_id)
       IN  results' = IF best.kind = "raise" THEN best ELSE Returned(best.path)
    /\ lastOp' = [op |-> "calculate_best_path", flow_id |-> flow_id]
    /\ UNCHANGED <<topology, flows, history>>

\* simulate_traffic with the sum written back into the link it was read from
\* (edge['latency'] += latency for latency += edge['latency'])
SimulateTraffic_writeback ==
    /\ Sequential
    /\ results' = simulate_traffic(topology, flows)
    /\ lastOp' = [op |-> "simulate_traffic", again |-> lastOp.op = "simulate_traffic"]
    /\ topology' = IF results'.kind = "return"
                   THEN [topology EXCEPT !.data =
                           [e \in DOMAIN @ |->
                              IF \E id \in DOMAIN results'.value :
                                    \E i \in 1..(Len(results'.value[id].path) - 1) :
                                       e = {results'.value[id].path[i],
                                            results'.value[id].path[i + 1]}
                              THEN [@[e] EXCEPT !.latency = @ + @]
                              ELSE @[e]]]
                   ELSE topology
    /\ UNCHANGED <<flows, history>>

\* again: the call before this one was simulate_traffic too
SimulateTraffic ==
    /\ Sequential
    /\ results' = simulate_traffic(topology, flows)
    /\ lastOp' = [op |-> "simulate_traffic", again |-> lastOp.op = "simulate_traffic"]
    /\ UNCHANGED <<topology, flows, history>>

\* monitor_links: random.uniform yields any value of its interval; the values
\* drawn here are those of the interval that lie on the grids below.
LatencyValues == {30, 35, 40}
JitterValues == {2, 3, 5}
LossValues == {10, 20, 50}

ClampLoss(x) == IF x < 0 THEN 0 ELSE IF x > 500 THEN 500 ELSE x

MonitorDraws(d) ==
    {m \in [latency : LatencyValues, jitter : JitterValues, packet_loss : LossValues] :
        /\ 9 * d.latency <= 10 * m.latency /\ 10 * m.latency <= 11 * d.latency
        /\ 8 * d.jitter <= 10 * m.jitter /\ 10 * m.jitter <= 12 * d.jitter
        /\ ClampLoss(d.packet_loss - 10) <= m.packet_loss
        /\ m.packet_loss <= ClampLoss(d.packet_loss + 10)}

\* the loop of monitor_links over es[i..], each edge updated with its draw
RECURSIVE monitor_links(_, _, _, _)
monitor_links(G, es, i, draw) ==
    IF i > Len(es) THEN G
    ELSE monitor_links(update_link_metrics(G, es[i][1], es[i][2], draw[es[i]]),
                       es, i + 1, draw)

MonitorLinks ==
    /\ Sequential
    /\ LET es == edges(topology)
           all == UNION {MonitorDraws(topology.data[{key[1], key[2]}]) : key \in Range(es)}
       IN  \E draw \in [Range(es) -> all] :
              /\ \A key \in Range(es) :
                    draw[key] \in MonitorDraws(topology.data[{key[1], key[2]}])
              /\ topology' = monitor_links(topology, es, 1, draw)
    /\ lastOp' = [op |-> "monitor_links"]
    /\ results' = Returned(NoValue)
    /\ UNCHANGED <<flows, history>>

OptimizePaths(threshold) ==
    /\ Sequential
    /\ LET r == optimize_paths(topology, history, threshold)
       IN  /\ history' = r.history
           /\ results' = Returned(r.ret)
    /\ lastOp' = [op |-> "optimize_paths", threshold |-> threshold,
                  again |-> lastOp.op = "optimize_paths"]
    /\ UNCHANGED <<topology, flows>>

----------------------------------------------------------------------------
(* Spec: the controller's interface, called in any order from the empty     *)
(* controller.                                                              *)

LinkChoices ==
    {NetworkLink(30, 5, 10, 50, 1),
     NetworkLink(20, 3, 5, 20, 2)}

UpdateChoices ==
    {[latency |-> 40, jitter |-> 8]}

FlowIds == {"voip1", "video1"}

FlowChoices ==
    {TrafficFlow("Branch1", "HQ", 5, 1, "latency"),
     TrafficFlow("Branch2", "HQ", 50, 2, "reliability"),
     TrafficFlow("Branch1", "Branch2", 400, 4, "throughput"),
     TrafficFlow("HQ", "Branch2", 50, 3, "unspecified"),
     TrafficFlow("Branch1", "CloudGW", 5, 1, "latency")}

Next ==
    \/ \E n \in NodeIds :
          /\ Len(topology.node) < Len(NodeOrder)
          /\ n = NodeOrder[Len(topology.node) + 1]
          /\ AddNode(n, NodeType(n))
    \/ \E a \in NodeIds : \E b \in NodeIds \ {a}, l \in LinkChoices :
          /\ HasNode(topology, a) /\ HasNode(topology, b)
          /\ {a, b} \in Links(topology) \/ Cardinality(Links(topology)) < MaxLinks
          /\ AddLink(a, b, l)
    \/ \E id \in FlowIds, f \in FlowChoices :
          /\ id \in FlowIdsOf(flows) \/ Len(flows) < MaxFlows
          /\ AddTrafficFlow(id, f)
    \/ \E a \in NodeIds : \E b \in NodeIds \ {a}, m \in UpdateChoices :
          UpdateLinkMetrics(a, b, m)
    \/ SimulateTraffic

Spec == Init /\ [][Next]_vars

----------------------------------------------------------------------------
(* SpecPath: calculate_best_path on the controllers that the set-up calls   *)
(* of run_simulation build: its four nodes, and any choice of its five      *)
(* node pairs linked, each with any of the links below.                     *)

ScenarioNodes == <<"HQ", "Branch1", "Branch2", "CloudGW">>
ScenarioPairs ==
    << <<"HQ", "Branch1">>, <<"HQ", "Branch2">>, <<"Branch1", "Branch2">>,
       <<"Branch1", "CloudGW">>, <<"Branch2", "CloudGW">> >>

NoLink == [linked |-> FALSE]     \* the pair is left without a link
PathLinkChoices ==
    {NetworkLink(30, 5, 10, 50, 1),
     NetworkLink(20, 3, 5, 20, 2),
     NetworkLink(60, 15, 30, 0, 3)}

PathEndpoints == Range(ScenarioNodes) \cup {"DC"}    \* "DC" is never a node
PathSources == {"HQ", "Branch1", "DC"}

RECURSIVE AddNodes(_, _, _)
AddNodes(G, ns, i) ==
    IF i > Len(ns) THEN G
    ELSE AddNodes(G_add_node(G, ns[i], NodeType(ns[i])), ns, i + 1)

\* add_link for the chosen pairs, in the order of ScenarioPairs or in reverse
RECURSIVE AddLinks(_, _, _, _)
AddLinks(G, pick, i, reversed) ==
    IF i > Len(ScenarioPairs) THEN G
    ELSE LET k == IF reversed THEN Len(ScenarioPairs) + 1 - i ELSE i
             pair == ScenarioPairs[k]
         IN  AddLinks(IF pick[k] = NoLink THEN G
                      ELSE G_add_edge(G, pair[1], pair[2], pick[k]),
                      pick, i + 1, reversed)

InitPath ==
    /\ \E pick \in [1..Len(ScenarioPairs) -> PathLinkChoices \cup {NoLink}],
          reversed \in BOOLEAN :
          topology = AddLinks(AddNodes(EmptyGraph, ScenarioNodes, 1), pick, 1, reversed)
    /\ \E s \in PathSources, t \in PathEndpoints, sens \in Sensitivities :
          flows = <<[id |-> "voip1", flow |-> TrafficFlow(s, t, 5, 1, sens)]>>
    /\ history = <<>>
    /\ results = Returned(NoValue)
    /\ lastOp = [op |-> "init"]
    /\ writer = Idle
    /\ reader = Idle
    /\ versions = NoVersions

NextPath == CalculateBestPath("voip1")

SpecPath == InitPath /\ [][NextPath]_vars

----------------------------------------------------------------------------
(* What the claims speak of, stated apart from the algorithms above *)

Linked(G, u, v) == {u, v} \in Links(G)

\* the simple paths of G that extend p to t
RECURSIVE SimplePathsFrom(_, _, _)
SimplePathsFrom(G, p, t) ==
    IF p[Len(p)] = t THEN {p}
    ELSE UNION {SimplePathsFrom(G, Append(p, w), t) :
                  w \in {x \in Range(G.node) \ Range(p) : Linked(G, p[Len(p)], x)}}

SimplePaths(G, s, t) ==
    IF HasNode(G, s) /\ HasNode(G, t) THEN SimplePathsFrom(G, <<s>>, t) ELSE {}

\* same connected component
Connected(G, s, t) == SimplePaths(G, s, t) # {}

\* the weight the specification gives an edge, per sensitivity
SpecWeight(sensitivity, d) ==
    IF sensitivity = "latency" THEN RInt(d.latency)
    ELSE IF sensitivity = "throughput" THEN Rat(1, d.bandwidth)
    ELSE IF sensitivity = "reliability"
    THEN RAdd(Rat(d.packet_loss, 100), RMul(Rat(1, 10), RInt(d.jitter)))
    ELSE RInt(1)

RECURSIVE PathWeight(_, _, _, _)
PathWeight(G, p, i, sensitivity) ==
    IF i > Len(p) - 1 THEN RInt(0)
    ELSE RAdd(SpecWeight(sensitivity, G.data[{p[i], p[i + 1]}]),
              PathWeight(G, p, i + 1, sensitivity))

CalledBestPath == lastOp.op = "calculate_best_path"
TheFlow == FlowOf(flows, lastOp.flow_id)

\* C5: a path calculate_best_path returns is a simple path of the topology from
\* the flow's source to its destination, and no source-to-destination path has
\* a smaller total weight, the weight of an edge being the one the flow's
\* sensitivity selects (latency; 1/bandwidth; packet_loss + 0.1*jitter; else 1).
C5_BestPathIsMinimal ==
    (CalledBestPath /\ results.kind = "return") =>
        LET all == SimplePaths(topology, TheFlow.source, TheFlow.destination)
        IN  /\ results.value \in all
            /\ \A q \in all :
                  RLeq(PathWeight(topology, results.value, 1, TheFlow.sensitivity),
                       PathWeight(topology, q, 1, TheFlow.sensitivity))

\* C5 witness: a detour of three hops was returned although source and
\* destination are linked directly
C5_Witness ==
    /\ CalledBestPath /\ results.kind = "return"
    /\ Len(results.value) = 4
    /\ Linked(topology, TheFlow.source, TheFlow.destination)

IsPathOfFlow(G, p, flow) ==
    /\ Len(p) >= 1
    /\ p[1] = flow.source /\ p[Len(p)] = flow.destination
    /\ \A i \in 1..(Len(p) - 1) : Linked(G, p[i], p[i + 1])

PositiveBandwidth(G) == \A e \in Links(G) : G.data[e].bandwidth > 0

----------------------------------------------------------------------------
(* Evaluation of all flows: simulate_traffic *)

CalledSimulate == lastOp.op = "simulate_traffic"

\* what simulate_traffic is claimed to report for a flow that cannot be evaluated
ErrorEntry(e) == [error |-> e]

\* C1 as claimed: simulate_traffic returns an entry for every registered flow,
\* an error entry for a flow whose evaluation fails and the path, metrics and
\* score for every other flow; one failing flow never aborts the call.
C1_PartialFailureIsolation ==
    CalledSimulate =>
        /\ results.kind = "return"
        /\ DOMAIN results.value = FlowIdsOf(flows)
        /\ \A id \in FlowIdsOf(flows) :
              LET r == EvaluateFlow(topology, flows, id)
              IN  IF r.kind = "raise"
                  THEN results.value[id] = ErrorEntry(r.error)
                  ELSE results.value[id] =
                          [path |-> r.path, metrics |-> r.metrics, score |-> r.score]

\* C7 as claimed: for every registered flow that has a path, whatever its
\* sensitivity, the score of the path's metrics is a number from 0 to 100.
C7_ScoreInRange ==
    \A id \in FlowIdsOf(flows) :
        LET best == calculate_best_path(topology, flows, id)
        IN  best.kind = "path" =>
              LET s == _calculate_path_score(_get_path_metrics(topology, best.path),
                                             FlowOf(flows, id))
              IN  /\ s.kind = "value"
                  /\ RLeq(RInt(0), s.score) /\ RLeq(s.score, RInt(100))

MinimalPaths(G, flow) ==
    LET all == SimplePaths(G, flow.source, flow.destination)
    IN  {p \in all : \A q \in all :
            RLeq(PathWeight(G, p, 1, flow.sensitivity),
                 PathWeight(G, q, 1, flow.sensitivity))}

----------------------------------------------------------------------------
(* SpecDrift: the drift monitor on a controller whose three nodes are added; *)
(* links are added and rewritten, metrics updated by the caller and by       *)
(* monitor_links, and optimize_paths called, in any order.                   *)

DefaultThreshold == 1000       \* threshold=10, in hundredths
Thresholds == {0, DefaultThreshold}

DriftLinks ==
    {<<"HQ", "Branch1", NetworkLink(30, 5, 10, 50, 1)>>,
     <<"HQ", "Branch2", NetworkLink(35, 3, 50, 20, 2)>>}

DriftUpdates ==
    {<<"HQ", "Branch1", [latency |-> 40]>>,
     <<"Branch1", "HQ", [latency |-> 30]>>,
     <<"Branch2", "HQ", [latency |-> 40, jitter |-> 2]>>,
     <<"Branch1", "Branch2", [latency |-> 40]>>}

InitDrift ==
    /\ topology = AddNodes(EmptyGraph, NodeOrder, 1)
    /\ flows = <<>>
    /\ history = <<>>
    /\ results = Returned(NoValue)
    /\ lastOp = [op |-> "init"]
    /\ writer = Idle
    /\ reader = Idle
    /\ versions = NoVersions

NextDrift ==
    \/ \E l \in DriftLinks : AddLink(l[1], l[2], l[3])
    \/ \E u \in DriftUpdates : UpdateLinkMetrics(u[1], u[2], u[3])
    \/ MonitorLinks
    \/ \E threshold \in Thresholds :
          /\ Len(history) < MaxHistory
          /\ OptimizePaths(threshold)

SpecDrift == InitDrift /\ [][NextDrift]_vars

----------------------------------------------------------------------------
(* Drift monitor claims, checked under SpecDrift.                            *)

CalledOptimize == lastOp.op = "optimize_paths"

\* the step is a call of optimize_paths
OptimizeStep == lastOp'.op = "optimize_paths"

RECURSIVE SumOver(_, _)
SumOver(f, S) ==
    IF S = {} THEN 0
    ELSE LET x == CHOOSE y \in S : TRUE IN f[x] + SumOver(f, S \ {x})

\* the drift of the spec between a baseline snapshot and the live topology,
\* in hundredths: the absolute differences of latency, jitter and packet_loss
\* summed over the edges the baseline records
Drift(baseline, G) ==
    SumOver([e \in DOMAIN baseline |->
                LET d == G.data[{e[1], e[2]}]
                IN  100 * Abs(d.latency - baseline[e].latency)
                      + 100 * Abs(d.jitter - baseline[e].jitter)
                      + Abs(d.packet_loss - baseline[e].packet_loss)],
            DOMAIN baseline)

\* the metrics of every link as the topology holds them
LiveMetrics(G) ==
    [e \in Links(G) |-> [latency |-> G.data[e].latency, jitter |-> G.data[e].jitter,
                         packet_loss |-> G.data[e].packet_loss]]

\* the metrics a snapshot records, link by link
SnapshotMetrics(snap) ==
    [e \in {{k[1], k[2]} : k \in DOMAIN snap} |->
        LET k == CHOOSE k \in DOMAIN snap : {k[1], k[2]} = e IN snap[k]]

\* C2: after every call of optimize_paths, triggering or not, the history is
\* one entry longer and its last entry, the baseline of the next call, is the
\* snapshot of the metrics the call saw.
C2_BaselineIsLatestSnapshot ==
    [][OptimizeStep =>
          /\ Len(history') = Len(history) + 1
          /\ SnapshotMetrics(history'[Len(history')]) = LiveMetrics(topology)]_vars

C4_ColdStart ==
    [][(OptimizeStep /\ history = <<>>) =>
          /\ results'.value = FALSE
          /\ Len(history') = 1
          /\ SnapshotMetrics(history'[1]) = LiveMetrics(topology)]_vars

\* the first call made with threshold 0 on a topology of two links
C4_Witness ==
    /\ CalledOptimize
    /\ lastOp.threshold = 0
    /\ results.value = FALSE
    /\ Len(history) = 1
    /\ Cardinality(DOMAIN history[1]) = 2

----------------------------------------------------------------------------
(* SpecConc: one thread inside update_link_metrics and one thread inside     *)
(* simulate_traffic or _capture_state, on a controller built beforehand.     *)
(* The program takes no lock, so the threads interleave between any two      *)
(* accesses of the link dictionaries.  shortest_path is taken as one step:   *)
(* the model has fewer interleavings than the program, never more.           *)
(* versions.any   : every value of the link data during the reader's call    *)
(* versions.whole : the values before and after whole updates                *)
(* versions.read  : the link records the reader has read, field by field     *)

\* the order _get_path_metrics reads the fields of an edge in
FieldsRead == <<"latency", "jitter", "packet_loss", "bandwidth">>

\* the order _capture_state reads the fields of an edge in
FieldsCaptured == <<"latency", "jitter", "packet_loss">>

WithData(G, data) == [G EXCEPT !.data = data]

\* one statement of the loop body of _get_path_metrics
Accumulate(acc, field, value) ==
    CASE field = "latency" -> [acc EXCEPT !.latency = @ + value]
      [] field = "jitter" -> [acc EXCEPT !.jitter = @ + value]
      [] field = "packet_loss" ->
            [acc EXCEPT !.packet_loss = RMul(@, RSub(RInt(1), Rat(value, 10000)))]
      [] field = "bandwidth" -> [acc EXCEPT !.bandwidth = RMin(@, RInt(value))]

StartVersions ==
    [whole |-> IF writer = Idle THEN {topology.data} ELSE {writer.before},
     any |-> {topology.data},
     read |-> {}]

\* update_link_metrics entered: has_edge holds; items is **metrics in the
\* order the caller gave the keywords
WriterCall(node1, node2, items) ==
    /\ writer = Idle
    /\ has_edge(topology, node1, node2)
    /\ writer' = [pc |-> "write", node1 |-> node1, node2 |-> node2, items |-> items,
                  before |-> topology.data]
    /\ UNCHANGED <<topology, flows, history, results, lastOp, reader, versions>>

\* self.topology[node1][node2][metric] = value, for the next item
WriterStep ==
    /\ writer.pc = "write"
    /\ LET item == Head(writer.items)
           last == Len(writer.items) = 1
           G2 == update_link_metrics(topology, writer.node1, writer.node2,
                                     item[1] :> item[2])
       IN  /\ topology' = G2
           /\ writer' = IF last THEN Idle ELSE [writer EXCEPT !.items = Tail(@)]
           /\ versions' = IF reader = Idle THEN versions
                          ELSE [versions EXCEPT
                                  !.any = @ \cup {G2.data},
                                  !.whole = IF last THEN @ \cup {G2.data} ELSE @]
    /\ UNCHANGED <<flows, history, results, lastOp, reader>>

Entered == [op |-> "enter"]

\* simulate_traffic entered: results = {}
ReaderCallSimulate ==
    /\ reader = Idle
    /\ reader' = [pc |-> "flow", k |-> 1, out |-> <<>>]
    /\ versions' = StartVersions
    /\ lastOp' = Entered
    /\ results' = Returned(NoValue)
    /\ UNCHANGED <<topology, flows, history, writer>>

\* the head of the for loop: calculate_best_path for the k-th flow, or the
\* return after the last one
ReaderFlow ==
    /\ reader.pc = "flow"
    /\ IF reader.k > Len(flows)
       THEN /\ results' = [kind |-> "return", value |-> reader.out]
            /\ lastOp' = [op |-> "simulate_traffic", again |-> FALSE]
            /\ reader' = Idle
       ELSE LET best == calculate_best_path(topology, flows, flows[reader.k].id)
            IN  IF best.kind = "raise"
                THEN /\ results' = best
                     /\ lastOp' = [op |-> "simulate_traffic", again |-> FALSE]
                     /\ reader' = Idle
                ELSE /\ reader' = [pc |-> "edge", k |-> reader.k, out |-> reader.out,
                                   path |-> best.path, i |-> 1, f |-> 1,
                                   acc |-> [latency |-> 0, jitter |-> 0,
                                            packet_loss |-> RInt(1),
                                            bandwidth |-> Infinity],
                                   rec |-> <<>>]
                     /\ UNCHANGED <<results, lastOp>>
    /\ UNCHANGED <<topology, flows, history, writer, versions>>

\* _get_path_metrics with the running sum written into the link
\* (edge['latency'] += latency for latency += edge['latency'])
ReaderEdge_writeback ==
    /\ reader.pc = "edge"
    /\ IF reader.i > Len(reader.path) - 1
       THEN LET flow_id == flows[reader.k].id
                acc == reader.acc
                path_metrics ==
                    [acc EXCEPT !.packet_loss =
                        RMul(RSub(RInt(1), acc.packet_loss), RInt(100))]
                score == _calculate_path_score(path_metrics, FlowOf(flows, flow_id))
            IN  /\ IF score.kind = "raise"
                   THEN /\ results' = score
                        /\ lastOp' = [op |-> "simulate_traffic", again |-> FALSE]
                        /\ reader' = Idle
                   ELSE /\ reader' = [pc |-> "flow", k |-> reader.k + 1,
                                      out |-> (flow_id :> [path |-> reader.path,
                                                           metrics |-> path_metrics,
                                                           score |-> score.score])
                                              @@ reader.out]
                        /\ UNCHANGED <<results, lastOp>>
                /\ UNCHANGED versions
       ELSE LET e == {reader.path[reader.i], reader.path[reader.i + 1]}
                field == FieldsRead[reader.f]
                value == topology.data[e][field]
                rec == (field :> value) @@ reader.rec
                done == reader.f = Len(FieldsRead)
            IN  /\ reader' = [reader EXCEPT
                                !.acc = Accumulate(@, field, value),
                                !.rec = IF done THEN <<>> ELSE rec,
                                !.f = IF done THEN 1 ELSE @ + 1,
                                !.i = IF done THEN @ + 1 ELSE @]
                /\ versions' = IF done
                               THEN [versions EXCEPT !.read = @ \cup {[e |-> e, rec |-> rec]}]
                               ELSE versions
                /\ UNCHANGED <<results, lastOp>>
    /\ topology' =
          IF reader.i <= Len(reader.path) - 1 /\ FieldsRead[reader.f] = "latency"
          THEN LET e == {reader.path[reader.i], reader.path[reader.i + 1]}
               IN  [topology EXCEPT !.data[e].latency = @ + reader.acc.latency]
          ELSE topology
    /\ UNCHANGED <<flows, history, writer>>


\* _get_path_metrics: one read of one field of the i-th edge of the path;
\* after the last edge the score is computed and the entry stored
ReaderEdge ==
    /\ reader.pc = "edge"
    /\ IF reader.i > Len(reader.path) - 1
       THEN LET flow_id == flows[reader.k].id
                acc == reader.acc
                path_metrics ==
                    [acc EXCEPT !.packet_loss =
                        RMul(RSub(RInt(1), acc.packet_loss), RInt(100))]
                score == _calculate_path_score(path_metrics, FlowOf(flows, flow_id))
            IN  /\ IF score.kind = "raise"
                   THEN /\ results' = score
                        /\ lastOp' = [op |-> "simulate_traffic", again |-> FALSE]
                        /\ reader' = Idle
                   ELSE /\ reader' = [pc |-> "flow", k |-> reader.k + 1,
                                      out |-> (flow_id :> [path |-> reader.path,
                                                           metrics |-> path_metrics,
                                                           score |-> score.score])
                                              @@ reader.out]
                        /\ UNCHANGED <<results, lastOp>>
                /\ UNCHANGED versions
       ELSE LET e == {reader.path[reader.i], reader.path[reader.i + 1]}
                field == FieldsRead[reader.f]
                value == topology.data[e][field]
                rec == (field :> value) @@ reader.rec
                done == reader.f = Len(FieldsRead)
            IN  /\ reader' = [reader EXCEPT
                                !.acc = Accumulate(@, field, value),
                                !.rec = IF done THEN <<>> ELSE rec,
                                !.f = IF done THEN 1 ELSE @ + 1,
                                !.i = IF done THEN @ + 1 ELSE @]
                /\ versions' = IF done
                               THEN [versions EXCEPT !.read = @ \cup {[e |-> e, rec |-> rec]}]
                               ELSE versions
                /\ UNCHANGED <<results, lastOp>>
    /\ UNCHANGED <<topology, flows, history, writer>>

\* _capture_state entered: state = {}, the edges to go over
ReaderCallCapture ==
    /\ reader = Idle
    /\ reader' = [pc |-> "capture", es |-> edges(topology), i |-> 1, f |-> 1,
                  state |-> <<>>, rec |-> <<>>]
    /\ versions' = StartVersions
    /\ lastOp' = Entered
    /\ results' = Returned(NoValue)
    /\ UNCHANGED <<topology, flows, history, writer>>

\* _capture_state: one read of one field of the i-th edge, or the return
ReaderCapture ==
    /\ reader.pc = "capture"
    /\ IF reader.i > Len(reader.es)
       THEN /\ results' = Returned(reader.state)
            /\ lastOp' = [op |-> "_capture_state"]
            /\ reader' = Idle
            /\ UNCHANGED versions
       ELSE LET key == reader.es[reader.i]
                e == {key[1], key[2]}
                field == FieldsCaptured[reader.f]
                rec == (field :> topology.data[e][field]) @@ reader.rec
                done == reader.f = Len(FieldsCaptured)
            IN  /\ reader' = [reader EXCEPT
                                !.state = IF done THEN (key :> rec) @@ @ ELSE @,
                                !.rec = IF done THEN <<>> ELSE rec,
                                !.f = IF done THEN 1 ELSE @ + 1,
                                !.i = IF done THEN @ + 1 ELSE @]
                /\ versions' = IF done
                               THEN [versions EXCEPT !.read = @ \cup {[e |-> e, rec |-> rec]}]
                               ELSE versions
                /\ UNCHANGED <<results, lastOp>>
    /\ UNCHANGED <<topology, flows, history, writer>>

ConcLinks ==
    <<<<"Branch1", "HQ", NetworkLink(30, 5, 10, 50, 1)>>,
      <<"Branch2", "HQ", NetworkLink(20, 3, 5, 20, 2)>>,
      <<"Branch1", "Branch2", NetworkLink(25, 4, 8, 30, 1)>>>>

ConcFlows ==
    <<[id |-> "voip1", flow |-> TrafficFlow("Branch1", "HQ", 5, 1, "latency")],
      [id |-> "video1", flow |-> TrafficFlow("HQ", "Branch1", 50, 2, "reliability")]>>

ConcUpdates ==
    {<<"Branch1", "HQ", <<<<"latency", 60>>, <<"jitter", 12>>>>>>,
     <<"HQ", "Branch1", <<<<"jitter", 5>>, <<"latency", 30>>>>>>}

RECURSIVE BuildLinks(_, _, _)
BuildLinks(G, ls, i) ==
    IF i > Len(ls) THEN G
    ELSE BuildLinks(G_add_edge(G, ls[i][1], ls[i][2], ls[i][3]), ls, i + 1)

RECURSIVE BuildFlows(_, _, _)
BuildFlows(F, fs, i) ==
    IF i > Len(fs) THEN F
    ELSE BuildFlows(add_traffic_flow(F, fs[i].id, fs[i].flow), fs, i + 1)

InitConc ==
    /\ topology = BuildLinks(AddNodes(EmptyGraph, NodeOrder, 1), ConcLinks, 1)
    /\ flows = BuildFlows(<<>>, ConcFlows, 1)
    /\ history = <<>>
    /\ results = Returned(NoValue)
    /\ lastOp = [op |-> "init"]
    /\ writer = Idle
    /\ reader = Idle
    /\ versions = NoVersions

NextConc ==
    \/ \E u \in ConcUpdates : WriterCall(u[1], u[2], u[3])
    \/ WriterStep
    \/ ReaderCallSimulate
    \/ ReaderFlow
    \/ ReaderEdge
    \/ ReaderCallCapture
    \/ ReaderCapture

SpecConc == InitConc /\ [][NextConc]_vars

\* C8: every link record the reader has read, in _get_path_metrics or in
\* _capture_state, is the record the link held before or after a whole
\* update: no record mixes fields an update has written with fields the same
\* update had yet to write.
C8_NoHalfUpdatedRecord ==
    \A r \in versions.read :
        \E data \in versions.whole :
            \A field \in DOMAIN r.rec : r.rec[field] = data[r.e][field]

\* C9: what a simulate_traffic call run beside updates returns is what
\* simulate_traffic returns on one of the values the link data had during
\* the call.
C9_ConsistentEvaluation ==
    (CalledSimulate /\ reader = Idle) =>
        \E data \in versions.any :
            results = simulate_traffic(WithData(topology, data), flows)

----------------------------------------------------------------------------
(* SpecEval: simulate_traffic followed statement by statement, on            *)
(* controllers built beforehand: their links a prefix of ConcLinks, their    *)
(* two flows any of FlowChoices.  A call that is abandoned is a call whose   *)
(* next step is never taken.                                                 *)

EvalFlowLists ==
    {<<[id |-> "voip1", flow |-> f], [id |-> "video1", flow |-> g]>> :
        f \in FlowChoices, g \in FlowChoices}

InitEval ==
    /\ \E n \in 1..Len(ConcLinks) :
          topology = BuildLinks(AddNodes(EmptyGraph, NodeOrder, 1),
                                SubSeq(ConcLinks, 1, n), 1)
    /\ \E fs \in EvalFlowLists : flows = BuildFlows(<<>>, fs, 1)
    /\ history = <<>>
    /\ results = Returned(NoValue)
    /\ lastOp = [op |-> "init"]
    /\ writer = Idle
    /\ reader = Idle
    /\ versions = NoVersions

NextEval ==
    \/ ReaderCallSimulate
    \/ ReaderFlow
    \/ ReaderEdge

SpecEval == InitEval /\ [][NextEval]_vars

\* C11: every step of simulate_traffic, from its entry to its return or to
\* the exception that ends it, leaves the nodes, the links, every link
\* metric and the flow registry as they were; so does a call abandoned
\* after any of its steps.
C11_EvaluationReadOnly ==
    [][(reader # Idle \/ reader' # Idle) =>
          (topology' = topology /\ flows' = flows)]_vars

\* a call that raised after it had read the records of some links
C11_Witness ==
    /\ CalledSimulate
    /\ reader = Idle
    /\ results.kind = "raise"
    /\ versions.read # {}

----------------------------------------------------------------------------
(* Topology mutation claims, checked under Spec.                             *)

\* C12: update_link_metrics for a pair of nodes that has no link raises a
\* link-not-found error and leaves the topology unchanged.
C12_UpdateOfMissingLinkFails ==
    [][\A a \in NodeIds, b \in NodeIds, m \in UpdateChoices :
          (a # b /\ ~has_edge(topology, a, b) /\ UpdateLinkMetrics(a, b, m)) =>
              (results'.kind = "raise" /\ topology' = topology)]_vars

\* the topology with the given fields of the link {a, b} set, all else kept
Merged(G, a, b, m) ==
    [node |-> G.node, type |-> G.type, adj |-> G.adj,
     data |-> [e \in Links(G) |->
                 IF e = {a, b}
                 THEN [f \in DOMAIN G.data[e] \cup DOMAIN m |->
                          IF f \in DOMAIN m THEN m[f] ELSE G.data[e][f]]
                 ELSE G.data[e]]]

\* C13: update_link_metrics on an existing link sets the given fields of that
\* link and changes nothing else; addressing the link as (b, a) gives the
\* same state, and so does applying the update a second time.
C13_UpdateMergesGivenFields ==
    [][\A u \in DriftUpdates :
          (has_edge(topology, u[1], u[2]) /\ UpdateLinkMetrics(u[1], u[2], u[3])) =>
              /\ topology' = Merged(topology, u[1], u[2], u[3])
              /\ update_link_metrics(topology, u[2], u[1], u[3]) = topology'
              /\ update_link_metrics(topology', u[1], u[2], u[3]) = topology'
              /\ results' = Returned(NoValue)]_vars

\* an update of latency and jitter has reached the second of two links, stored
\* as (HQ, Branch2) and addressed as (Branch2, HQ)
C13_Witness ==
    /\ lastOp.op = "update_link_metrics"
    /\ Cardinality(Links(topology)) = 2
    /\ topology.data[{"HQ", "Branch2"}].latency = 40
    /\ topology.data[{"HQ", "Branch2"}].jitter = 2
    /\ topology.data[{"HQ", "Branch2"}].packet_loss = 50

----------------------------------------------------------------------------
(* SpecTopo: the topology calls in any order and with any endpoints, from    *)
(* the empty controller: add_link is also called before add_node has added   *)
(* its endpoints, and on pairs that are linked already.                      *)

NextTopo ==
    \/ \E n \in NodeIds : AddNode(n, NodeType(n))
    \/ \E a \in NodeIds : \E b \in NodeIds \ {a}, l \in LinkChoices :
          /\ {a, b} \in Links(topology) \/ Cardinality(Links(topology)) < MaxLinks
          /\ AddLink(a, b, l)
    \/ \E a \in NodeIds : \E b \in NodeIds \ {a}, m \in UpdateChoices :
          UpdateLinkMetrics(a, b, m)

SpecTopo == Init /\ [][NextTopo]_vars

\* C14: add_link with an endpoint that add_node has not added raises an
\* unknown-node error and leaves the topology unchanged: the missing node
\* is not created.
C14_AddLinkOfUnknownNodeFails ==
    [][\A a \in NodeIds, b \in NodeIds, l \in LinkChoices :
          (/\ a # b
           /\ ~HasNode(topology, a) \/ ~HasNode(topology, b)
           /\ AddLink(a, b, l)) =>
              (results'.kind = "raise" /\ topology' = topology)]_vars

\* C15: add_link on a pair of nodes that has a link already raises a
\* duplicate-link error and leaves the metrics of the existing link as
\* they were.
C15_AddLinkOfLinkedPairFails ==
    [][\A a \in NodeIds, b \in NodeIds, l \in LinkChoices :
          (a # b /\ has_edge(topology, a, b) /\ AddLink(a, b, l)) =>
              /\ results'.kind = "raise"
              /\ topology'.data[{a, b}] = topology.data[{a, b}]]_vars

----------------------------------------------------------------------------
(* Drift monitor claims on the snapshots SpecDrift reaches.                  *)

\* the snapshots differ in the latency of the edge key and in nothing else
DifferOnlyInLatencyOf(state1, state2, key) ==
    /\ DOMAIN state1 = DOMAIN state2
    /\ key \in DOMAIN state1
    /\ state1[key].jitter = state2[key].jitter
    /\ state1[key].packet_loss = state2[key].packet_loss
    /\ \A other \in DOMAIN state1 \ {key} : state1[other] = state2[other]

\* C16: for a snapshot of the history and the snapshot of the live topology,
\* over the same edges and differing only in the latency of one edge by D,
\* _state_diff is |D| (100 * |D| in hundredths), in either order of the
\* snapshots.
C16_DriftOfOneLatencyChange ==
    \A i \in 1..Len(history) :
        LET state1 == history[i]
            state2 == _capture_state(topology)
        IN  \A key \in DOMAIN state1 :
                DifferOnlyInLatencyOf(state1, state2, key) =>
                    /\ _state_diff(state1, state2)
                          = 100 * Abs(state2[key].latency - state1[key].latency)
                    /\ _state_diff(state2, state1)
                          = 100 * Abs(state2[key].latency - state1[key].latency)

\* two links, and the latency of one of them has gone up since the snapshot
C16_Witness ==
    /\ Len(history) >= 1
    /\ Cardinality(DOMAIN history[1]) = 2
    /\ \E key \in DOMAIN history[1] :
          /\ DifferOnlyInLatencyOf(history[1], _capture_state(topology), key)
          /\ _capture_state(topology)[key].latency > history[1][key].latency

----------------------------------------------------------------------------
(* SpecRun: run_simulation and dashboard, statement by statement.  Both      *)
(* build the same controller with the same twelve calls; dashboard then      *)
(* calls simulate_traffic once, run_simulation enters its loop.  The number  *)
(* of set-up calls made is the number of nodes, links and flows there are;   *)
(* the loop records its step in lastOp.                                      *)

MaxSteps == 4           \* steps of the loop of run_simulation (range(10))

RunLinks ==
    <<<<"HQ", "Branch1", NetworkLink(30, 5, 10, 50, 1)>>,
      <<"HQ", "Branch2", NetworkLink(40, 8, 20, 50, 1)>>,
      <<"Branch1", "Branch2", NetworkLink(20, 3, 5, 20, 2)>>,
      <<"Branch1", "CloudGW", NetworkLink(60, 15, 30, 100, 3)>>,
      <<"Branch2", "CloudGW", NetworkLink(70, 20, 40, 100, 3)>>>>

RunFlows ==
    <<[id |-> "voip1", flow |-> TrafficFlow("Branch1", "HQ", 5, 1, "latency")],
      [id |-> "backup1", flow |-> TrafficFlow("Branch1", "CloudGW", 200, 4, "throughput")],
      [id |-> "video1", flow |-> TrafficFlow("Branch2", "HQ", 50, 2, "reliability")]>>

SetUpComplete ==
    /\ Len(topology.node) = Len(ScenarioNodes)
    /\ Cardinality(Links(topology)) = Len(RunLinks)
    /\ Len(flows) = Len(RunFlows)

\* the next of the twelve set-up calls
RunSetUp ==
    LET n == Len(topology.node)
        l == Cardinality(Links(topology))
        f == Len(flows)
    IN  \/ /\ n < Len(ScenarioNodes)
           /\ AddNode(ScenarioNodes[n + 1], NodeType(ScenarioNodes[n + 1]))
        \/ /\ n = Len(ScenarioNodes) /\ l < Len(RunLinks)
           /\ AddLink(RunLinks[l + 1][1], RunLinks[l + 1][2], RunLinks[l + 1][3])
        \/ /\ n = Len(ScenarioNodes) /\ l = Len(RunLinks) /\ f < Len(RunFlows)
           /\ AddTrafficFlow(RunFlows[f + 1].id, RunFlows[f + 1].flow)

\* dashboard: simulate_traffic right after the set-up
DashboardSimulate ==
    /\ SetUpComplete
    /\ lastOp.op = "add_traffic_flow"
    /\ SimulateTraffic

\* the loop with simulate_traffic called after every optimize_paths,
\* whatever it returned
LoopNext_unconditional(last, res) ==
    IF last.op = "add_traffic_flow" THEN [op |-> "monitor_links", step |-> 0]
    ELSE IF last.op = "monitor_links" THEN [op |-> "optimize_paths", step |-> last.step]
    ELSE IF res.kind = "raise" THEN [op |-> "raise", step |-> last.step]
    ELSE IF last.op = "optimize_paths"
         THEN [op |-> "simulate_traffic", step |-> last.step]
    ELSE IF last.step + 1 < MaxSteps THEN [op |-> "monitor_links", step |-> last.step + 1]
    ELSE [op |-> "return", step |-> last.step]

\* the statement of run_simulation that follows the one recorded in last,
\* res being what that one returned
LoopNext(last, res) ==
    IF last.op = "add_traffic_flow" THEN [op |-> "monitor_links", step |-> 0]
    ELSE IF last.op = "monitor_links" THEN [op |-> "optimize_paths", step |-> last.step]
    ELSE IF res.kind = "raise" THEN [op |-> "raise", step |-> last.step]
    ELSE IF last.op = "optimize_paths" /\ res.value = TRUE
         THEN [op |-> "simulate_traffic", step |-> last.step]
    ELSE IF last.step + 1 < MaxSteps THEN [op |-> "monitor_links", step |-> last.step + 1]
    ELSE [op |-> "return", step |-> last.step]

InRun == SetUpComplete /\ (lastOp.op = "add_traffic_flow" \/ "step" \in DOMAIN lastOp)

\* the values monitor_links draws in this run: a latency of the grid within
\* 10% of the current one, the jitter and the loss it finds
RunLatencyValues == {20, 30, 40, 60, 66, 70}

RunDraws(d) ==
    {m \in [latency : RunLatencyValues, jitter : {d.jitter},
            packet_loss : {d.packet_loss}] :
        9 * d.latency <= 10 * m.latency /\ 10 * m.latency <= 11 * d.latency}

\* the loop of monitor_links over es[i..]: every topology it can leave, each
\* edge updated with one of its draws
RECURSIVE MonitorOutcomes(_, _, _)
MonitorOutcomes(G, es, i) ==
    IF i > Len(es) THEN {G}
    ELSE UNION {MonitorOutcomes(update_link_metrics(G, es[i][1], es[i][2], m), es, i + 1) :
                   m \in RunDraws(G.data[{es[i][1], es[i][2]}])}

RunMonitorLinks ==
    /\ Sequential
    /\ InRun
    /\ LoopNext(lastOp, results).op = "monitor_links"
    /\ topology' \in MonitorOutcomes(topology, edges(topology), 1)
    /\ lastOp' = LoopNext(lastOp, results)
    /\ results' = Returned(NoValue)
    /\ UNCHANGED <<flows, history>>

RunOptimizePaths ==
    /\ Sequential
    /\ InRun
    /\ LoopNext(lastOp, results).op = "optimize_paths"
    /\ LET r == optimize_paths(topology, history, DefaultThreshold)
       IN  /\ history' = r.history
           /\ results' = Returned(r.ret)
    /\ lastOp' = [op |-> "optimize_paths", threshold |-> DefaultThreshold,
                  again |-> FALSE, step |-> lastOp.step]
    /\ UNCHANGED <<topology, flows>>

RunSimulateTraffic ==
    /\ Sequential
    /\ InRun
    /\ LoopNext(lastOp, results).op = "simulate_traffic"
    /\ results' = simulate_traffic(topology, flows)
    /\ lastOp' = [op |-> "simulate_traffic", again |-> FALSE, step |-> lastOp.step]
    /\ UNCHANGED <<topology, flows, history>>

NextRun ==
    \/ RunSetUp
    \/ DashboardSimulate
    \/ RunMonitorLinks
    \/ RunOptimizePaths
    \/ RunSimulateTraffic

SpecRun == Init /\ [][NextRun]_vars

\* the call of simulate_traffic that dashboard makes
DashboardEvaluated == CalledSimulate /\ "step" \notin DOMAIN lastOp

\* C17: on the topology and flows of the scenario, simulate_traffic gives
\* voip1 the path [Branch1, HQ], latency 30, jitter 5 and score 83.5.
C17_ScenarioVoip ==
    DashboardEvaluated =>
        /\ results.kind = "return"
        /\ results.value["voip1"].path = <<"Branch1", "HQ">>
        /\ results.value["voip1"].metrics.latency = 30
        /\ results.value["voip1"].metrics.jitter = 5
        /\ results.value["voip1"].score = Rat(167, 2)

\* dashboard has evaluated the three flows on the five links
C17_Witness ==
    /\ DashboardEvaluated
    /\ Cardinality(Links(topology)) = 5
    /\ topology.data[{"HQ", "Branch1"}].latency = 30
    /\ topology.data[{"Branch1", "Branch2"}].latency = 20
    /\ DOMAIN results.value = {"voip1", "backup1", "video1"}

----------------------------------------------------------------------------
(* Drift monitor claims on calls in sequence, checked under SpecDrift.       *)

\* C18: of two consecutive calls of optimize_paths with the same positive
\* threshold and no call in between, the second returns false, whatever the
\* first returned.
C18_NoRepeatedSignal ==
    [][(/\ CalledOptimize
        /\ OptimizeStep
        /\ lastOp'.threshold = lastOp.threshold
        /\ lastOp.threshold > 0) => results'.value = FALSE]_vars

\* C19: the history is append-only.  In every step, whichever call takes it,
\* the history does not get shorter and the entries it had are still there,
\* in place and unaltered; a call of optimize_paths makes it at most one
\* entry longer.  A metric update on the topology leaves every stored
\* snapshot as it was.
C19_HistoryAppendOnly ==
    [][/\ Len(history') >= Len(history)
       /\ SubSeq(history', 1, Len(history)) = history
       /\ (OptimizeStep => Len(history') <= Len(history) + 1)
       /\ (lastOp'.op = "update_link_metrics" => history' = history)]_vars

\* two snapshots are stored, and a metric update made after them has left a
\* link with a latency that neither snapshot has for it
C19_Witness ==
    /\ Len(history) = 2
    /\ lastOp.op = "update_link_metrics"
    /\ \E e \in Links(topology) :
          /\ \A i \in 1..2 : e \in DOMAIN SnapshotMetrics(history[i])
          /\ \A i \in 1..2 :
                SnapshotMetrics(history[i])[e].latency # topology.data[e].latency

----------------------------------------------------------------------------
(* The loop of run_simulation, checked under SpecRun.                        *)

\* the step taken is a call made by the loop of run_simulation
LoopCall == "step" \in DOMAIN lastOp'

\* C20: in every step of the loop of run_simulation, monitor_links comes
\* first, optimize_paths comes next and decides on the metrics monitor_links
\* left, and simulate_traffic is called in that step if and only if that
\* call of optimize_paths returned true; no simulate_traffic in step 0, and
\* none that does not follow a call of optimize_paths that returned true.
C20_LoopOrdering ==
    [][LoopCall =>
         /\ lastOp'.op = "monitor_links" =>
               \/ lastOp.op = "add_traffic_flow" /\ lastOp'.step = 0
               \/ /\ lastOp.op = "optimize_paths"
                  /\ results.value = FALSE
                  /\ lastOp'.step = lastOp.step + 1
               \/ /\ lastOp.op = "simulate_traffic"
                  /\ "step" \in DOMAIN lastOp
                  /\ lastOp'.step = lastOp.step + 1
         /\ lastOp'.op = "optimize_paths" =>
               /\ lastOp.op = "monitor_links"
               /\ lastOp'.step = lastOp.step
               /\ topology' = topology
               /\ results'.value =
                     optimize_paths(topology, history, DefaultThreshold).ret
         /\ lastOp'.op = "simulate_traffic" =>
               /\ lastOp.op = "optimize_paths"
               /\ results.value = TRUE
               /\ lastOp'.step = lastOp.step
               /\ lastOp'.step > 0
         /\ (lastOp.op = "optimize_paths" /\ results.value = TRUE) =>
               lastOp'.op = "simulate_traffic"
         /\ lastOp.op = "monitor_links" => lastOp'.op = "optimize_paths"]_vars

\* the loop has called simulate_traffic in a step after the first, and in an
\* earlier step optimize_paths returned false and the loop went on without it
C20_Witness ==
    /\ CalledSimulate
    /\ "step" \in DOMAIN lastOp
    /\ lastOp.step >= 2
    /\ Len(history) >= 2

====
